---- MODULE Spec2Model ----
(***************************************************************************)
(* Model of containers/osbuild-composer/entrypoint.py: the container       *)
(* entrypoint that prepares the socket-activation sockets, spawns          *)
(* dnf-json, osbuild-worker and osbuild-composer, waits for them and       *)
(* cascades termination.                                                   *)
(*                                                                         *)
(* One step of the model is one statement group of Cli.run (one socket     *)
(* block of _prepare_sockets, one spawn helper, one terminate/kill, one    *)
(* wait).  The children are processes of their own: they exit on their own *)
(* (ChildExit) whenever they run.  KeyboardInterrupt is observed where the *)
(* supervisor blocks, i.e. in a Popen.wait() on a child that still runs.   *)
(*                                                                         *)
(* Strings are sequences of tokens, so that str() and ":".join() are       *)
(* conversions and not identities.                                         *)
(*                                                                         *)
(* subprocess.Popen is modelled as CPython >= 3.9 implements it:           *)
(*   - wait() blocks until the child has exited, reaps it and caches the   *)
(*     return code; a later wait() returns the cached code;                *)
(*   - terminate()/kill() poll first and send no signal to a child that    *)
(*     has exited (the poll reaps it);                                     *)
(*   - wait() that is interrupted by KeyboardInterrupt waits briefly for   *)
(*     the child and re-raises.                                            *)
(***************************************************************************)
EXTENDS Integers, Sequences, FiniteSets, TLC

\* ------------------------------------------------------------------ bounds

\* Children exit on their own with a status in 0..MaxExitCode.
MaxExitCode == 2

\* At most MaxInterrupts KeyboardInterrupts are delivered in one run.
MaxInterrupts == 2

\* Descriptors above the standard streams that may already be open when the
\* entrypoint starts are taken from 3..MaxInheritedFd.
MaxInheritedFd == 4

\* ------------------------------------------------------- names of the code

Children == {"worker", "dnf_json", "composer"}

Helpers == {"worker", "dnf_json"}

\* The four activation sockets of _prepare_sockets, in creation order, and
\* the dnf-json socket of _spawn_dnf_json.
ActivationRoles == <<"weldr_api", "composer_api", "local_worker_api", "remote_worker_api">>

SocketRoles == {"weldr_api", "composer_api", "local_worker_api", "remote_worker_api", "dnf_json"}

FdName ==
    [weldr_api         |-> "osbuild-composer.socket",
     composer_api      |-> "osbuild-composer-api.socket",
     local_worker_api  |-> "osbuild-local-worker.socket",
     remote_worker_api |-> "osbuild-remote-worker.socket"]

StdFds == {0, 1, 2}

ExitCodes == 0..MaxExitCode

\* Popen.returncode of a child that died of SIGTERM / SIGKILL.
SigTermCode == 0 - 15

SigKillCode == 0 - 9

\* ---------------------------------------------------------------- strings

Digit == <<"0", "1", "2", "3", "4", "5", "6", "7", "8", "9">>

\* str(n) for n >= 0: the decimal digits of n.
RECURSIVE Str(_)
Str(n) == IF n < 10 THEN <<Digit[n + 1]>> ELSE Str(n \div 10) \o <<Digit[(n % 10) + 1]>>

\* ":".join(names)
RECURSIVE Join(_)
Join(names) ==
    IF names = <<>> THEN <<>>
    ELSE IF Len(names) = 1 THEN <<names[1]>>
    ELSE <<names[1], ":">> \o Join(Tail(names))

\* An environment variable that is not set.
Unset == <<"<unset>">>

EnvVars == {"LISTEN_FDS", "LISTEN_FDNAMES", "LISTEN_PID", "LISTEN_FD", "CACHE_DIRECTORY", "STATE_DIRECTORY"}

\* The environment the entrypoint starts with: nothing of interest set, or
\* the activation variables of a socket-activated parent.
CleanEnv == [v \in EnvVars |-> Unset]

ActivatedEnv ==
    [CleanEnv EXCEPT !["LISTEN_FDS"] = Str(1), !["LISTEN_FDNAMES"] = <<"inherited.socket">>, !["LISTEN_PID"] = Str(1)]

\* os.getpid() in the supervisor and in each forked child.
PidOf == [supervisor |-> 1, worker |-> 21, dnf_json |-> 22, composer |-> 23]

\* ------------------------------------------------------------------- state

VARIABLES
    args,        \* self.args: the parsed command line
    pc,          \* the statement of run() (or of __main__) that executes next
    environ,     \* os.environ of the supervisor
    fds,         \* the descriptors open in the supervisor
    sock,        \* per socket role: state, descriptor, address
    closes,      \* per socket role: how often close() was called on it
    exitstack,   \* self._exitstack: the sockets registered for closing
    sockets,     \* the list `sockets` of _prepare_sockets
    names,       \* the list `names` of _prepare_sockets
    index,       \* the local `index` of _prepare_sockets
    handle,      \* proc_worker / proc_dnf_json / proc_composer is not None
    child,       \* per child: the process (state, exit status, env, descriptors)
    terminated,  \* per child: calls of Popen.terminate()
    killed,      \* per child: calls of Popen.kill()
    waited,      \* per child: calls of Popen.wait() that returned
    reaps,       \* per child: how often its exit status was collected
    res,         \* the local `res` of run()
    outcome,     \* "running", "returned" or "raised"
    exc,         \* the exception in flight or propagated ("none" if none)
    path,        \* the exit path run() has taken: "normal", "interrupt", "failure"
    interrupts,  \* KeyboardInterrupts delivered so far
    interruptedAt \* the wait the first KeyboardInterrupt arrived in ("none" if none)

vars == <<args, pc, environ, fds, sock, closes, exitstack, sockets, names, index,
          handle, child, terminated, killed, waited, reaps, res, outcome, exc,
          path, interrupts, interruptedAt>>

sockVars == <<fds, sock, closes, exitstack, sockets, names, index>>

procVars == <<handle, child, terminated, killed, waited, reaps>>

\* ------------------------------------------------------------- command line

FeatureFlags == {"--weldr-api", "--composer-api", "--local-worker-api", "--remote-worker-api", "--dnf-json"}

DnfJsonPorts == {0, 8000}

\* Variant: the command line can enable builtin_worker, and does.
ParseArgsBuiltinWorker(on, port) ==
    [builtin_worker    |-> TRUE,
     weldr_api         |-> "--weldr-api" \in on,
     composer_api      |-> "--composer-api" \in on,
     composer_api_port |-> 443,
     local_worker_api  |-> "--local-worker-api" \in on,
     remote_worker_api |-> "--remote-worker-api" \in on,
     dnf_json          |-> "--dnf-json" \in on,
     dnf_json_port     |-> port]

\* _parse_args: `on` is the set of features whose last flag on the command
\* line is the enabling one.  builtin_worker has a default and no flag.
ParseArgs(on, port) ==
    [builtin_worker    |-> FALSE,
     weldr_api         |-> "--weldr-api" \in on,
     composer_api      |-> "--composer-api" \in on,
     composer_api_port |-> 443,
     local_worker_api  |-> "--local-worker-api" \in on,
     remote_worker_api |-> "--remote-worker-api" \in on,
     dnf_json          |-> "--dnf-json" \in on,
     dnf_json_port     |-> port]

NoSocket == [st |-> "none", fd |-> 0 - 1, family |-> "none", addr |-> "", port |-> 0]

NoChild == [st |-> "none", status |-> 0, sigterm |-> 0, sigkill |-> 0,
            env |-> CleanEnv, fds |-> {}]

\* The state in which run() starts: Cli(argv) is constructed, __enter__ has
\* created the exit stack and parsed the command line, nothing is spawned.
\* The inherited environment and the inherited descriptors are inputs.
Init ==
    /\ \E on \in SUBSET FeatureFlags, port \in DnfJsonPorts : args = ParseArgs(on, port)
    /\ pc = "prepare_weldr_api"
    /\ environ \in {CleanEnv, ActivatedEnv}
    /\ \E extra \in SUBSET (3..MaxInheritedFd) : fds = StdFds \cup extra
    /\ sock = [r \in SocketRoles |-> NoSocket]
    /\ closes = [r \in SocketRoles |-> 0]
    /\ exitstack = <<>>
    /\ sockets = <<>>
    /\ names = <<>>
    /\ index = 3
    /\ handle = [c \in Children |-> FALSE]
    /\ child = [c \in Children |-> NoChild]
    /\ terminated = [c \in Children |-> 0]
    /\ killed = [c \in Children |-> 0]
    /\ waited = [c \in Children |-> 0]
    /\ reaps = [c \in Children |-> 0]
    /\ res = 0
    /\ outcome = "running"
    /\ exc = "none"
    /\ path = "normal"
    /\ interrupts = 0
    /\ interruptedAt = "none"

\* ---------------------------------------------------------------- sockets

\* The kernel gives a new descriptor the lowest number that is free.
LowestFree(open) ==
    CHOOSE n \in 0..Cardinality(open) : n \notin open /\ \A m \in 0..(n - 1) : m \in open

\* The address each socket is bound to.
SocketSpec(r) ==
    CASE r = "weldr_api" -> [family |-> "AF_UNIX", addr |-> "/run/weldr/api.socket", port |-> 0]
      [] r = "composer_api" -> [family |-> "AF_INET6", addr |-> "::", port |-> args.composer_api_port]
      [] r = "local_worker_api" -> [family |-> "AF_UNIX", addr |-> "/run/osbuild-composer/job.socket", port |-> 0]
      [] r = "remote_worker_api" -> [family |-> "AF_INET6", addr |-> "::", port |-> 8700]
      [] r = "dnf_json" ->
            IF args.dnf_json_port # 0
            THEN [family |-> "AF_INET6", addr |-> "::", port |-> args.dnf_json_port]
            ELSE [family |-> "AF_UNIX", addr |-> "/run/osbuild-dnf-json/api.sock", port |-> 0]

\* socket.socket(...) followed by self._exitstack.enter_context(closing(sock)):
\* the new socket takes the lowest free descriptor and is registered for
\* closing before it is bound.
\* Variant: the socket is not registered with the exit stack.
NotRegistered(stack, r) == stack

Registered(stack, r) == Append(stack, r)

NewSocket(r, state) ==
    [st |-> state, fd |-> LowestFree(fds), family |-> SocketSpec(r).family,
     addr |-> SocketSpec(r).addr, port |-> SocketSpec(r).port]

\* An exception that leaves run() uncaught: the with-statement of __main__
\* runs Cli.__exit__ next.
Propagate(e) ==
    /\ exc' = e
    /\ outcome' = "raised"
    /\ pc' = "exit"

\* Variant: the assertion is not evaluated.
FdUnchecked(fd, idx) == TRUE

\* assert(sock.fileno() == index)
FdAsExpected(fd, idx) == fd = idx

\* One `if self.args.<feature>:` block of _prepare_sockets.  bind()/listen()
\* may fail with OSError; the assertion fails when the descriptor is not the
\* expected one.  Both leave run() before its try statement.
PrepareSocket(r, next) ==
    /\ pc = "prepare_" \o r
    /\ IF ~args[r]
       THEN /\ pc' = next
            /\ UNCHANGED <<sockVars, exc, outcome, path>>
       ELSE \E bound \in BOOLEAN :
            /\ fds' = fds \cup {LowestFree(fds)}
            /\ exitstack' = Registered(exitstack, r)
            /\ closes' = closes
            /\ IF ~bound
               THEN /\ sock' = [sock EXCEPT ![r] = NewSocket(r, "open")]
                    /\ UNCHANGED <<sockets, names, index>>
                    /\ path' = "startup"
                    /\ Propagate("OSError")
               ELSE /\ sock' = [sock EXCEPT ![r] = NewSocket(r, "listening")]
                    /\ sockets' = Append(sockets, r)
                    /\ names' = Append(names, FdName[r])
                    /\ IF FdAsExpected(LowestFree(fds), index)
                       THEN /\ index' = index + 1
                            /\ pc' = next
                            /\ UNCHANGED <<exc, outcome, path>>
                       ELSE /\ index' = index
                            /\ path' = "startup"
                            /\ Propagate("AssertionError")
    /\ UNCHANGED <<args, environ, procVars, res, interrupts, interruptedAt>>

PrepareWeldr == PrepareSocket("weldr_api", "prepare_composer_api")

PrepareComposerApi == PrepareSocket("composer_api", "prepare_local_worker_api")

PrepareLocalWorker == PrepareSocket("local_worker_api", "prepare_remote_worker_api")

PrepareRemoteWorker == PrepareSocket("remote_worker_api", "prepare_env")

\* Variant: LISTEN_FDS is taken from the descriptor index, not from the list.
ListenEnvFromIndex(env, socks, nms) ==
    [env EXCEPT !["LISTEN_FDS"] = Str(3 + Len(socks)), !["LISTEN_FDNAMES"] = Join(nms)]

\* The activation environment _prepare_sockets leaves in os.environ.
ListenEnv(env, socks, nms) ==
    [env EXCEPT !["LISTEN_FDS"] = Str(Len(socks)), !["LISTEN_FDNAMES"] = Join(nms)]

PrepareEnv ==
    /\ pc = "prepare_env"
    /\ environ' = ListenEnv(environ, sockets, names)
    /\ pc' = "spawn_worker"
    /\ UNCHANGED <<args, sockVars, procVars, res, outcome, exc, path, interrupts, interruptedAt>>

\* Cli.__exit__: the exit stack closes every registered socket.
Occurrences(stack, r) == Cardinality({i \in 1..Len(stack) : stack[i] = r})

Exit ==
    /\ pc = "exit"
    /\ closes' = [r \in SocketRoles |-> closes[r] + Occurrences(exitstack, r)]
    /\ sock' = [r \in SocketRoles |->
                  IF Occurrences(exitstack, r) > 0 THEN [sock[r] EXCEPT !.st = "closed"] ELSE sock[r]]
    /\ fds' = fds \ {sock[r].fd : r \in {x \in SocketRoles : Occurrences(exitstack, x) > 0}}
    /\ exitstack' = <<>>
    /\ pc' = "done"
    /\ UNCHANGED <<args, environ, sockets, names, index, procVars, res, outcome, exc, path, interrupts, interruptedAt>>

\* --------------------------------------------------------------- processes

\* Popen.poll(): collects the exit status of a child that has exited.
Poll(p) == IF p.st = "exited" THEN [p EXCEPT !.st = "reaped"] ELSE p

\* Variant: the signal is sent without looking at the child's state.
SendSignalUnchecked(p, sig) ==
    IF sig = "SIGTERM" THEN [p EXCEPT !.sigterm = @ + 1]
    ELSE [p EXCEPT !.sigkill = @ + 1]

\* Popen.send_signal(): polls, and signals the child only if it still runs.
SendSignal(p, sig) ==
    IF p.st # "running" THEN Poll(p)
    ELSE IF sig = "SIGTERM" THEN [p EXCEPT !.sigterm = @ + 1]
    ELSE [p EXCEPT !.sigkill = @ + 1]

\* The exit statuses a running child can end with: SIGKILL cannot be caught,
\* SIGTERM ends the child unless it handles the signal and exits on its own.
ExitStatuses(p) ==
    IF p.sigkill > 0 THEN {SigKillCode}
    ELSE IF p.sigterm > 0 THEN ExitCodes \cup {SigTermCode}
    ELSE ExitCodes

\* A child process ends; it stays a zombie until the supervisor collects it.
ChildExit(c) ==
    /\ child[c].st = "running"
    /\ \E status \in ExitStatuses(child[c]) :
         child' = [child EXCEPT ![c] = [@ EXCEPT !.st = "exited", !.status = status]]
    /\ UNCHANGED <<args, pc, environ, sockVars, handle, terminated, killed, waited,
                   reaps, res, outcome, exc, path, interrupts, interruptedAt>>

\* A spawned process: the environment and the descriptors it starts with.
\* close_fds is Popen's default, so only the standard streams and pass_fds
\* are inherited.
Spawned(env, passFds) ==
    [st |-> "running", status |-> 0, sigterm |-> 0, sigkill |-> 0,
     env |-> env, fds |-> StdFds \cup passFds]

\* An exception raised inside the try statement of run() other than
\* KeyboardInterrupt: the bare except clause handles it.
Fail(e) ==
    /\ exc' = e
    /\ path' = "failure"
    /\ pc' = "ex_kill_worker"

WorkerEnv(env) ==
    [env EXCEPT !["CACHE_DIRECTORY"] = <<"/var/cache/osbuild-worker">>,
                !["STATE_DIRECTORY"] = <<"/var/lib/osbuild-worker">>]

\* if self.args.builtin_worker: proc_worker = self._spawn_worker()
SpawnWorker ==
    /\ pc = "spawn_worker"
    /\ IF ~args.builtin_worker
       THEN /\ pc' = "spawn_dnf_json"
            /\ UNCHANGED <<handle, child, exc, path>>
       ELSE \E started \in BOOLEAN :
            IF started
            THEN /\ handle' = [handle EXCEPT !["worker"] = TRUE]
                 /\ child' = [child EXCEPT !["worker"] = Spawned(WorkerEnv(environ), {})]
                 /\ pc' = "spawn_dnf_json"
                 /\ UNCHANGED <<exc, path>>
            ELSE /\ Fail("OSError")
                 /\ UNCHANGED <<handle, child>>
    /\ UNCHANGED <<args, environ, sockVars, terminated, killed, waited, reaps, res,
                   outcome, interrupts, interruptedAt>>

DnfEnv(env, fd) ==
    [env EXCEPT !["LISTEN_FDS"] = Str(1), !["LISTEN_FD"] = Str(fd)]

\* if self.args.dnf_json: proc_dnf_json = self._spawn_dnf_json()
\* The socket is created and registered, bind()/listen() may fail, and then
\* Popen may fail.
SpawnDnfJson ==
    /\ pc = "spawn_dnf_json"
    /\ IF ~args.dnf_json
       THEN /\ pc' = "spawn_composer"
            /\ UNCHANGED <<fds, sock, exitstack, handle, child, exc, path>>
       ELSE \E bound \in BOOLEAN, started \in BOOLEAN :
            /\ fds' = fds \cup {LowestFree(fds)}
            /\ exitstack' = Registered(exitstack, "dnf_json")
            /\ IF ~bound
               THEN /\ sock' = [sock EXCEPT !["dnf_json"] = NewSocket("dnf_json", "open")]
                    /\ Fail("OSError")
                    /\ UNCHANGED <<handle, child>>
               ELSE /\ sock' = [sock EXCEPT !["dnf_json"] = NewSocket("dnf_json", "listening")]
                    /\ IF started
                       THEN /\ handle' = [handle EXCEPT !["dnf_json"] = TRUE]
                            /\ child' = [child EXCEPT !["dnf_json"] =
                                           Spawned(DnfEnv(environ, LowestFree(fds)), {LowestFree(fds)})]
                            /\ pc' = "spawn_composer"
                            /\ UNCHANGED <<exc, path>>
                       ELSE /\ Fail("OSError")
                            /\ UNCHANGED <<handle, child>>
    /\ UNCHANGED <<args, environ, closes, sockets, names, index, terminated, killed,
                   waited, reaps, res, outcome, interrupts, interruptedAt>>

\* any([weldr_api, composer_api, local_worker_api, remote_worker_api])
NeedComposer ==
    args.weldr_api \/ args.composer_api \/ args.local_worker_api \/ args.remote_worker_api

ComposerEnv(env) ==
    [env EXCEPT !["CACHE_DIRECTORY"] = <<"/var/cache/osbuild-composer">>,
                !["STATE_DIRECTORY"] = <<"/var/lib/osbuild-composer">>]

\* Variant: LISTEN_PID is computed in the supervisor, before the fork.
PreexecSetenvInParent(env, pid) == [env EXCEPT !["LISTEN_PID"] = Str(PidOf.supervisor)]

\* preexec_fn: os.putenv("LISTEN_PID", str(os.getpid())) in the forked child.
PreexecSetenv(env, pid) == [env EXCEPT !["LISTEN_PID"] = Str(pid)]

\* Variant: the child inherits every descriptor open in the supervisor
\* beyond the standard streams (close_fds=False).
PassFdsAll(socks) == fds \ StdFds

\* pass_fds=[sock.fileno() for sock in sockets]
PassFds(socks) == {sock[socks[i]].fd : i \in 1..Len(socks)}

\* if any([...]): proc_composer = self._spawn_composer(sockets)
\* _spawn_composer writes the directories into os.environ before Popen.
SpawnComposer ==
    /\ pc = "spawn_composer"
    /\ IF ~NeedComposer
       THEN /\ pc' = "wait_composer"
            /\ UNCHANGED <<environ, handle, child, exc, path>>
       ELSE \E started \in BOOLEAN :
            /\ environ' = ComposerEnv(environ)
            /\ IF started
               THEN /\ handle' = [handle EXCEPT !["composer"] = TRUE]
                    /\ child' = [child EXCEPT !["composer"] =
                                   Spawned(PreexecSetenv(ComposerEnv(environ), PidOf.composer),
                                           PassFds(sockets))]
                    /\ pc' = "wait_composer"
                    /\ UNCHANGED <<exc, path>>
               ELSE /\ Fail("OSError")
                    /\ UNCHANGED <<handle, child>>
    /\ UNCHANGED <<args, sockVars, terminated, killed, waited, reaps, res, outcome,
                   interrupts, interruptedAt>>

\* ------------------------------------------------------- waiting, signalling

\* The count of collected exit statuses after child c became p.
ReapsAfter(c, p) ==
    IF child[c].st = "exited" /\ p.st = "reaped" THEN [reaps EXCEPT ![c] = @ + 1] ELSE reaps

\* `if proc: [res =] proc.wait()`: blocks while the child runs, then collects
\* the exit status (or returns the cached one).
WaitStep(at, c, assign, next) ==
    /\ pc = at
    /\ IF ~handle[c]
       THEN /\ pc' = next
            /\ UNCHANGED <<child, waited, reaps, res>>
       ELSE /\ child[c].st \in {"exited", "reaped"}
            /\ child' = [child EXCEPT ![c] = Poll(@)]
            /\ reaps' = ReapsAfter(c, Poll(child[c]))
            /\ waited' = [waited EXCEPT ![c] = @ + 1]
            /\ res' = IF assign THEN child[c].status ELSE res
            /\ pc' = next
    /\ UNCHANGED <<args, environ, sockVars, handle, terminated, killed, outcome, exc,
                   path, interrupts, interruptedAt>>

\* `if proc: if cond: proc.terminate()`
TerminateStep(at, c, cond, next) ==
    /\ pc = at
    /\ IF handle[c] /\ cond
       THEN /\ child' = [child EXCEPT ![c] = SendSignal(@, "SIGTERM")]
            /\ reaps' = ReapsAfter(c, SendSignal(child[c], "SIGTERM"))
            /\ terminated' = [terminated EXCEPT ![c] = @ + 1]
       ELSE UNCHANGED <<child, reaps, terminated>>
    /\ pc' = next
    /\ UNCHANGED <<args, environ, sockVars, handle, killed, waited, res, outcome, exc,
                   path, interrupts, interruptedAt>>

\* `if proc: proc.kill()`
KillStep(at, c, next) ==
    /\ pc = at
    /\ IF handle[c]
       THEN /\ child' = [child EXCEPT ![c] = SendSignal(@, "SIGKILL")]
            /\ reaps' = ReapsAfter(c, SendSignal(child[c], "SIGKILL"))
            /\ killed' = [killed EXCEPT ![c] = @ + 1]
       ELSE UNCHANGED <<child, reaps, killed>>
    /\ pc' = next
    /\ UNCHANGED <<args, environ, sockVars, handle, terminated, waited, res, outcome,
                   exc, path, interrupts, interruptedAt>>

\* The body of the try statement after the spawns.
\* Variant: the supervisor does not wait for osbuild-composer.
WaitComposerSkipped == TerminateStep("wait_composer", "composer", FALSE, "term_worker")

WaitComposer == WaitStep("wait_composer", "composer", TRUE, "term_worker")

TerminateWorker == TerminateStep("term_worker", "worker", handle["composer"], "wait_worker")

WaitWorker == WaitStep("wait_worker", "worker", FALSE, "term_dnf_json")

\* Variant: the try body does not terminate dnf-json before waiting for it.
TerminateDnfJsonSkipped == TerminateStep("term_dnf_json", "dnf_json", FALSE, "wait_dnf_json")

\* Variant: the try body kills dnf-json instead of terminating it.
TerminateDnfJsonKills == KillStep("term_dnf_json", "dnf_json", "wait_dnf_json")

TerminateDnfJson == TerminateStep("term_dnf_json", "dnf_json", handle["composer"], "wait_dnf_json")

\* Variant: run() does not wait for dnf-json in the try body.
WaitDnfJsonSkipped == TerminateStep("wait_dnf_json", "dnf_json", FALSE, "return")

\* Variant: the wait on dnf-json overwrites res.
WaitDnfJsonAssigns == WaitStep("wait_dnf_json", "dnf_json", TRUE, "return")

WaitDnfJson == WaitStep("wait_dnf_json", "dnf_json", FALSE, "return")

\* except KeyboardInterrupt:
KiTerminateWorker == TerminateStep("ki_term_worker", "worker", TRUE, "ki_wait_worker")

KiWaitWorker == WaitStep("ki_wait_worker", "worker", FALSE, "ki_term_dnf_json")

\* Variant: the handler does not terminate dnf-json.
KiTerminateDnfJsonSkipped == TerminateStep("ki_term_dnf_json", "dnf_json", FALSE, "ki_wait_dnf_json")

KiTerminateDnfJson == TerminateStep("ki_term_dnf_json", "dnf_json", TRUE, "ki_wait_dnf_json")

\* Variant: the handler does not wait for dnf-json.
KiWaitDnfJsonSkipped == TerminateStep("ki_wait_dnf_json", "dnf_json", FALSE, "ki_term_composer")

\* Variant: the handler's wait on dnf-json overwrites res.
KiWaitDnfJsonAssigns == WaitStep("ki_wait_dnf_json", "dnf_json", TRUE, "ki_term_composer")

KiWaitDnfJson == WaitStep("ki_wait_dnf_json", "dnf_json", FALSE, "ki_term_composer")

KiTerminateComposer == TerminateStep("ki_term_composer", "composer", TRUE, "ki_wait_composer")

\* Variant: the handler does not wait for osbuild-composer.
KiWaitComposerSkipped == TerminateStep("ki_wait_composer", "composer", FALSE, "return")

KiWaitComposer == WaitStep("ki_wait_composer", "composer", TRUE, "return")

\* except: (any other exception)
ExKillWorker == KillStep("ex_kill_worker", "worker", "ex_kill_dnf_json")

\* Variant: the failure handler terminates dnf-json instead of killing it.
ExTerminateDnfJson == TerminateStep("ex_kill_dnf_json", "dnf_json", TRUE, "ex_kill_composer")

ExKillDnfJson == KillStep("ex_kill_dnf_json", "dnf_json", "ex_kill_composer")

ExKillComposer == KillStep("ex_kill_composer", "composer", "ex_raise")

\* Variant: the failure handler swallows the exception and run() returns res.
ExSwallow ==
    /\ pc = "ex_raise"
    /\ pc' = "return"
    /\ UNCHANGED <<args, environ, sockVars, procVars, res, outcome, exc, path,
                   interrupts, interruptedAt>>

\* raise: the exception that entered the handler leaves run().
ExRaise ==
    /\ pc = "ex_raise"
    /\ Propagate(exc)
    /\ UNCHANGED <<args, environ, sockVars, procVars, res, path, interrupts, interruptedAt>>

\* return res (from the try body, or after the KeyboardInterrupt handler)
Return ==
    /\ pc = "return"
    /\ outcome' = "returned"
    /\ pc' = "exit"
    /\ UNCHANGED <<args, environ, sockVars, procVars, res, exc, path, interrupts, interruptedAt>>

\* -------------------------------------------------------- KeyboardInterrupt

TryWaits == {"wait_composer", "wait_worker", "wait_dnf_json"}

HandlerWaits == {"ki_wait_worker", "ki_wait_dnf_json", "ki_wait_composer"}

\* The child the wait at `at` waits for.
Awaited(at) ==
    CASE at \in {"wait_composer", "ki_wait_composer"} -> "composer"
      [] at \in {"wait_worker", "ki_wait_worker"} -> "worker"
      [] at \in {"wait_dnf_json", "ki_wait_dnf_json"} -> "dnf_json"

\* The supervisor blocks in wait() on a child that still runs.
Blocked == pc \in TryWaits \cup HandlerWaits /\ handle[Awaited(pc)] /\ child[Awaited(pc)].st = "running"

\* Popen.wait() interrupted: it waits briefly for the child, which either
\* still runs afterwards or has exited and been collected, and re-raises.
BriefWait(c) ==
    \/ UNCHANGED <<child, reaps>>
    \/ \E status \in ExitStatuses(child[c]) :
         /\ child' = [child EXCEPT ![c] = [@ EXCEPT !.st = "reaped", !.status = status]]
         /\ reaps' = [reaps EXCEPT ![c] = @ + 1]

\* KeyboardInterrupt inside the try body: the except KeyboardInterrupt
\* clause handles it.
Interrupt ==
    /\ Blocked
    /\ pc \in TryWaits
    /\ interrupts < MaxInterrupts
    /\ interrupts' = interrupts + 1
    /\ interruptedAt' = IF interruptedAt = "none" THEN pc ELSE interruptedAt
    /\ BriefWait(Awaited(pc))
    /\ path' = "interrupt"
    /\ pc' = "ki_term_worker"
    /\ UNCHANGED <<args, environ, sockVars, handle, terminated, killed, waited, res,
                   outcome, exc>>

\* KeyboardInterrupt inside the except KeyboardInterrupt clause: no clause
\* of the same try statement handles it, it leaves run().
InterruptInHandler ==
    /\ Blocked
    /\ pc \in HandlerWaits
    /\ interrupts < MaxInterrupts
    /\ interrupts' = interrupts + 1
    /\ UNCHANGED interruptedAt
    /\ BriefWait(Awaited(pc))
    /\ Propagate("KeyboardInterrupt")
    /\ UNCHANGED <<args, environ, sockVars, handle, terminated, killed, waited, res,
                   path>>

\* ------------------------------------------------------------ specification

Next ==
    \/ PrepareWeldr
    \/ PrepareComposerApi
    \/ PrepareLocalWorker
    \/ PrepareRemoteWorker
    \/ PrepareEnv
    \/ SpawnWorker
    \/ SpawnDnfJson
    \/ SpawnComposer
    \/ WaitComposer
    \/ TerminateWorker
    \/ WaitWorker
    \/ TerminateDnfJson
    \/ WaitDnfJson
    \/ KiTerminateWorker
    \/ KiWaitWorker
    \/ KiTerminateDnfJson
    \/ KiWaitDnfJson
    \/ KiTerminateComposer
    \/ KiWaitComposer
    \/ ExKillWorker
    \/ ExKillDnfJson
    \/ ExKillComposer
    \/ ExRaise
    \/ Return
    \/ Exit
    \/ Interrupt
    \/ InterruptInHandler
    \/ \E c \in Children : ChildExit(c)

Spec == Init /\ [][Next]_vars

\* The statements of the supervisor: every step of Next that is neither the
\* arrival of a KeyboardInterrupt nor the exit of a child.
RunStep ==
    \/ PrepareWeldr
    \/ PrepareComposerApi
    \/ PrepareLocalWorker
    \/ PrepareRemoteWorker
    \/ PrepareEnv
    \/ SpawnWorker
    \/ SpawnDnfJson
    \/ SpawnComposer
    \/ WaitComposer
    \/ TerminateWorker
    \/ WaitWorker
    \/ TerminateDnfJson
    \/ WaitDnfJson
    \/ KiTerminateWorker
    \/ KiWaitWorker
    \/ KiTerminateDnfJson
    \/ KiWaitDnfJson
    \/ KiTerminateComposer
    \/ KiWaitComposer
    \/ ExKillWorker
    \/ ExKillDnfJson
    \/ ExKillComposer
    \/ ExRaise
    \/ Return
    \/ Exit

\* A helper exits once it has been signalled, or by itself in a run that
\* has no osbuild-composer.
HelperExits(h) ==
    /\ child[h].sigterm > 0 \/ child[h].sigkill > 0 \/ ~NeedComposer
    /\ ChildExit(h)

\* The single-threaded supervisor executes its next statement whenever it
\* is not blocked in wait(); osbuild-composer eventually exits; a helper
\* eventually exits after a signal or, without osbuild-composer, by itself.
\* KeyboardInterrupts may or may not arrive.
LiveSpec ==
    /\ Init
    /\ [][Next]_vars
    /\ WF_vars(RunStep)
    /\ WF_vars(ChildExit("composer"))
    /\ \A h \in Helpers : WF_vars(HelperExits(h))

\* ------------------------------------------------------------------ claims

\* A child process exists (it was spawned), whatever became of it.
WasSpawned(c) == child[c].st # "none"

\* C1: whenever run() returns a result and osbuild-composer was spawned, the
\* result is the exit status collected from osbuild-composer, on the normal
\* path and on the interrupt path, whatever the helpers exited with.
C1_ResultIsComposerExitCode ==
    (outcome = "returned" /\ WasSpawned("composer"))
        => (child["composer"].st = "reaped" /\ res = child["composer"].status)

\* run() returned after a handled interrupt, with a non-zero result that
\* differs from the exit status of dnf-json.
C1_Witness ==
    /\ outcome = "returned"
    /\ path = "interrupt"
    /\ WasSpawned("composer")
    /\ WasSpawned("dnf_json")
    /\ res = 2
    /\ child["dnf_json"].status = 1

\* C2: with none of the four socket features enabled, a run that returns a
\* result returns 0, whatever the helpers exited with and whether or not an
\* interrupt was handled.
C2_NoComposerReturnsZero ==
    (~NeedComposer /\ outcome = "returned") => (res = 0 /\ ~WasSpawned("composer"))

\* No socket feature, dnf-json spawned and exited non-zero, one interrupt
\* handled, run() returned.
C2_Witness ==
    /\ ~NeedComposer
    /\ outcome = "returned"
    /\ interrupts = 1
    /\ WasSpawned("dnf_json")
    /\ child["dnf_json"].status # 0

\* The sockets that were created.
Created == {r \in SocketRoles : sock[r].st # "none"}

\* C3: no socket is closed twice, and once the Cli context is exited every
\* socket that was created (bound or not) has been closed exactly once and
\* its descriptor is free again, on every way out of run().
C3_SocketsClosedOnce ==
    /\ \A r \in SocketRoles : closes[r] <= 1 /\ (closes[r] = 1 => r \in Created)
    /\ pc = "done" =>
         \A r \in Created : closes[r] = 1 /\ sock[r].st = "closed" /\ sock[r].fd \notin fds

\* The descriptor assertion failed after a first socket was created: both
\* sockets are closed after the context exit.
C3_Witness ==
    /\ pc = "done"
    /\ exc = "AssertionError"
    /\ Cardinality(Created) >= 2
    /\ \A r \in Created : closes[r] = 1

\* C4 as stated: once the run has ended, every child that was spawned has
\* been reaped exactly once, on every way out of run().
C4_AllReapedAtEnd ==
    pc = "done" => \A c \in Children : WasSpawned(c) => reaps[c] = 1

\* C4 as amended: whenever run() returns a result (normal completion or a
\* handled interrupt), every child that was spawned has been waited on and
\* its exit status collected exactly once; no exit status is ever collected
\* twice.
C4_ReapedWhenReturned ==
    /\ \A c \in Children : reaps[c] <= 1
    /\ outcome = "returned" =>
         \A c \in Children :
            WasSpawned(c) => (child[c].st = "reaped" /\ reaps[c] = 1 /\ waited[c] >= 1)

\* run() returned after a handled interrupt with both dnf-json and
\* osbuild-composer spawned and reaped.
C4_Witness ==
    /\ outcome = "returned"
    /\ path = "interrupt"
    /\ reaps["dnf_json"] = 1
    /\ reaps["composer"] = 1

\* A step spawns helper h.
SpawnsChild(c) == child[c].st = "none" /\ child'[c].st # "none"

\* A step calls terminate() on child c.
SendsTerminate(c) == terminated'[c] > terminated[c]

\* C5 as stated: a helper is spawned only while osbuild-composer is not yet
\* spawned, and terminate() is called on a helper only when
\* osbuild-composer is no longer running.
C5_HelpersAroundComposer ==
    [][\A h \in Helpers :
          /\ SpawnsChild(h) => ~WasSpawned("composer")
          /\ SendsTerminate(h) => child["composer"].st # "running"]_vars

\* C5 as amended: a helper is spawned only while osbuild-composer is not
\* yet spawned; on the normal path terminate() is called on a helper only
\* after osbuild-composer has exited and been reaped; on the interrupt path
\* the order is the reverse: terminate() is called on osbuild-composer only
\* after every spawned helper has been sent terminate() and been reaped.
C5_OrderPerPath ==
    [][/\ \A h \in Helpers :
            /\ SpawnsChild(h) => ~WasSpawned("composer")
            /\ (SendsTerminate(h) /\ path = "normal") => child["composer"].st = "reaped"
       /\ SendsTerminate("composer") =>
            /\ path = "interrupt"
            /\ \A h \in Helpers :
                  WasSpawned(h) => (terminated[h] >= 1 /\ child[h].st = "reaped")]_vars

\* The normal cascade has sent terminate() to dnf-json after
\* osbuild-composer was reaped.
C5_Witness ==
    /\ path = "normal"
    /\ terminated["dnf_json"] = 1
    /\ child["composer"].st = "reaped"
    /\ pc = "wait_dnf_json"

\* C6 as stated: when run() returns after an interrupt arrived in any of
\* its waits, every spawned helper was sent terminate() exactly once in the
\* whole run and was waited on.
C6_TerminatedOnceOnInterrupt ==
    (outcome = "returned" /\ interrupts >= 1) =>
        \A h \in Helpers : WasSpawned(h) => (terminated[h] = 1 /\ waited[h] >= 1)

\* The interrupt arrived before the normal cascade had sent any terminate():
\* in the wait on osbuild-composer, or in a wait on a helper when there is
\* no osbuild-composer.
InterruptedBeforeCascade ==
    \/ interruptedAt = "wait_composer"
    \/ interruptedAt \in {"wait_worker", "wait_dnf_json"} /\ ~WasSpawned("composer")

\* C6 as amended: when run() returns after an interrupt that arrived in the
\* wait on osbuild-composer (or in the wait on a helper when no
\* osbuild-composer exists), every spawned helper was sent terminate()
\* exactly once in the whole run and was waited on; an interrupt that
\* arrives in a helper wait of the normal cascade makes the helpers still
\* waited for receive terminate() a second time.
C6_TerminatedOnceBeforeCascade ==
    /\ (outcome = "returned" /\ InterruptedBeforeCascade) =>
          \A h \in Helpers :
             WasSpawned(h) => (terminated[h] = 1 /\ waited[h] >= 1 /\ child[h].st = "reaped")
    /\ (outcome = "returned" /\ interrupts >= 1 /\ ~InterruptedBeforeCascade) =>
          \A h \in Helpers :
             (WasSpawned(h) /\ Awaited(interruptedAt) = h) => terminated[h] = 2

\* run() returned after an interrupt in the wait on osbuild-composer, with
\* dnf-json terminated once.
C6_Witness ==
    /\ outcome = "returned"
    /\ interruptedAt = "wait_composer"
    /\ WasSpawned("dnf_json")
    /\ terminated["dnf_json"] = 1
    /\ waited["dnf_json"] = 1

\* The failure handler has run to its raise statement or beyond.
FailureHandled == path = "failure" /\ pc \in {"ex_raise", "exit", "done"}

\* C7: when an exception other than KeyboardInterrupt is raised in the try
\* body, kill() is called once on every child spawned so far (a child that
\* still runs then has SIGKILL pending), and terminate() is called on no
\* child in that run.
C7_FailureKillsAll ==
    /\ path = "failure" => \A c \in Children : terminated[c] = 0 /\ child[c].sigterm = 0
    /\ FailureHandled =>
         \A c \in Children :
            WasSpawned(c) => (killed[c] = 1 /\ (child[c].st = "running" => child[c].sigkill = 1))

\* osbuild-composer failed to start after dnf-json was spawned: dnf-json was
\* killed while it was still running.
C7_Witness ==
    /\ FailureHandled
    /\ NeedComposer
    /\ ~WasSpawned("composer")
    /\ WasSpawned("dnf_json")
    /\ killed["dnf_json"] = 1
    /\ child["dnf_json"].sigkill = 1

\* C8: a run on the failure path never returns a result and calls wait()
\* on no child; once its handler is done the exception that entered it (an
\* OSError of a bind, listen or spawn) has left run() unchanged.
C8_FailureReRaises ==
    path = "failure" =>
        /\ outcome # "returned"
        /\ \A c \in Children : waited[c] = 0
        /\ exc = "OSError"
        /\ pc \in {"exit", "done"} => outcome = "raised"

\* The bind of the dnf-json socket failed; the error has left run() and the
\* context is exited.
C8_Witness ==
    /\ path = "failure"
    /\ pc = "done"
    /\ outcome = "raised"
    /\ exc = "OSError"
    /\ sock["dnf_json"].st = "closed"
    /\ ~WasSpawned("dnf_json")

\* The names of the enabled socket features, in the fixed order.
EnabledNames ==
    LET pick(r) == IF args[r] THEN <<FdName[r]>> ELSE <<>>
    IN pick("weldr_api") \o pick("composer_api") \o pick("local_worker_api")
         \o pick("remote_worker_api")

\* The names in a colon-separated list.
SplitColon(str) == SelectSeq(str, LAMBDA t : t # ":")

\* The value of a string of decimal digits.
RECURSIVE ParseInt(_)
ParseInt(str) ==
    IF str = <<>> THEN 0
    ELSE 10 * ParseInt(SubSeq(str, 1, Len(str) - 1))
           + (CHOOSE d \in 0..9 : Digit[d + 1] = str[Len(str)])

\* _prepare_sockets has returned.
SocketsPrepared ==
    pc \notin {"prepare_weldr_api", "prepare_composer_api", "prepare_local_worker_api",
               "prepare_remote_worker_api", "prepare_env"} /\ path # "startup"

\* C9: after _prepare_sockets, LISTEN_FDNAMES in os.environ is the
\* colon-joined list of exactly the enabled features' names in the fixed
\* order, and LISTEN_FDS is the number of those names and of the sockets
\* returned, whatever the inherited environment held.
C9_ListenEnvironment ==
    SocketsPrepared =>
        /\ SplitColon(environ["LISTEN_FDNAMES"]) = EnabledNames
        /\ Len(environ["LISTEN_FDNAMES"]) =
              (IF EnabledNames = <<>> THEN 0 ELSE 2 * Len(EnabledNames) - 1)
        /\ ParseInt(environ["LISTEN_FDS"]) = Len(EnabledNames)
        /\ Len(sockets) = Len(EnabledNames)

\* Three of the four features enabled (composer-api disabled), inherited
\* activation variables overwritten.
C9_Witness ==
    /\ pc = "spawn_worker"
    /\ ~args.composer_api
    /\ Len(sockets) = 3
    /\ environ["LISTEN_PID"] # Unset
    /\ environ["LISTEN_FDS"] = <<"3">>

\* The descriptors that were open before run() created any socket.
InheritedFds ==
    fds \ (StdFds \cup {sock[r].fd : r \in {x \in SocketRoles : sock[x].st \in {"open", "listening"}}})

\* C10: the sockets _prepare_sockets returns have the descriptors 3, 4, ...
\* in creation order, whichever features are enabled; when only 0-2 are
\* open at the start the descriptor assertion never fails.
C10_ContiguousDescriptors ==
    /\ SocketsPrepared =>
         /\ \A i \in 1..Len(sockets) : sock[sockets[i]].fd = 2 + i
         /\ index = 3 + Len(sockets)
    /\ InheritedFds = {} => exc # "AssertionError"

\* weldr-api and local-worker-api enabled, composer-api disabled: the two
\* sockets have descriptors 3 and 4.
C10_Witness ==
    /\ SocketsPrepared
    /\ sockets = <<"weldr_api", "local_worker_api">>
    /\ sock["weldr_api"].fd = 3
    /\ sock["local_worker_api"].fd = 4
    /\ InheritedFds = {}

NoChildExists == \A c \in Children : child[c].st = "none"

\* C12: every step that creates a listening socket, the dnf-json socket
\* included, starts in a state without any child process, and a socket whose
\* bind() or listen() failed leaves a state without any child process.
\* (The worker, which run() would spawn before the dnf-json socket exists,
\* cannot be enabled from the command line.)
C12_SocketsBeforeChildren ==
    [][\A r \in SocketRoles :
          sock[r].st = "none" /\ sock'[r].st # "none" =>
              /\ NoChildExists
              /\ sock'[r].st = "open" => \A c \in Children : child'[c].st = "none"]_vars

\* dnf-json and osbuild-composer run, with all five sockets listening.
C12_Witness ==
    /\ child["dnf_json"].st = "running"
    /\ child["composer"].st = "running"
    /\ \A r \in SocketRoles : sock[r].st = "listening"

\* The descriptors of the activation sockets that were created.
ActivationFds == {sock[r].fd : r \in {x \in Created : x # "dnf_json"}}

\* The descriptors child c started with beyond the standard streams.
ExtraFds(c) == child[c].fds \ StdFds

\* C13: beyond the standard streams the worker starts with no descriptor,
\* osbuild-composer with exactly the descriptors of the activation sockets
\* (never the dnf-json socket), and dnf-json with exactly the descriptor of
\* its own socket (never an activation socket).
C13_InheritedDescriptors ==
    /\ WasSpawned("worker") => ExtraFds("worker") = {}
    /\ WasSpawned("composer") =>
          /\ ExtraFds("composer") = ActivationFds
          /\ "dnf_json" \in Created => sock["dnf_json"].fd \notin child["composer"].fds
    /\ WasSpawned("dnf_json") =>
          /\ ExtraFds("dnf_json") = {sock["dnf_json"].fd}
          /\ ExtraFds("dnf_json") \cap ActivationFds = {}

\* Two activation sockets and the dnf-json socket: osbuild-composer starts
\* with descriptors 3 and 4, dnf-json with descriptor 5.
C13_Witness ==
    /\ WasSpawned("composer")
    /\ WasSpawned("dnf_json")
    /\ ExtraFds("composer") = {3, 4}
    /\ ExtraFds("dnf_json") = {5}

RoleEnv(c) == IF c = "worker" THEN WorkerEnv(CleanEnv) ELSE ComposerEnv(CleanEnv)

\* C15 (as stated): every spawned child starts with CACHE_DIRECTORY and
\* STATE_DIRECTORY set, the worker and osbuild-composer to their own paths,
\* and no child to the paths of another role.
C15_RoleDirectories ==
    \A c \in Children : WasSpawned(c) =>
        \A v \in {"CACHE_DIRECTORY", "STATE_DIRECTORY"} :
            /\ child[c].env[v] # Unset
            /\ c \in {"worker", "composer"} => child[c].env[v] = RoleEnv(c)[v]
            /\ \A d \in {"worker", "composer"} \ {c} : child[c].env[v] # RoleEnv(d)[v]

\* The activation names of the sockets handed to osbuild-composer.
ComposerFdNames == {FdName[sockets[i]] : i \in 1..Len(sockets)}

\* C16 (as stated): dnf-json starts with LISTEN_FDS=1, with LISTEN_FD naming
\* the descriptor of its own socket, and with no activation variable that
\* describes the sockets of osbuild-composer.
C16_DnfJsonOwnActivation ==
    WasSpawned("dnf_json") =>
        /\ child["dnf_json"].env["LISTEN_FDS"] = Str(1)
        /\ ParseInt(child["dnf_json"].env["LISTEN_FD"]) = sock["dnf_json"].fd
        /\ \A i \in 1..Len(child["dnf_json"].env["LISTEN_FDNAMES"]) :
              child["dnf_json"].env["LISTEN_FDNAMES"][i] \notin ComposerFdNames

\* C17: on the path where osbuild-composer exited on its own, every spawned
\* helper gets terminate() once and is then waited for and collected before
\* run() returns; kill() is never called on that path; and a supervisor
\* blocked in a wait() leaves it only when the child exits or an interrupt
\* arrives.
C17_TerminateThenWaitNoKill ==
    /\ [](path = "normal" =>
            /\ \A c \in Children : killed[c] = 0 /\ child[c].sigkill = 0
            /\ handle["composer"] /\ pc \in {"return", "exit", "done"} =>
                  \A h \in Helpers : handle[h] =>
                      terminated[h] = 1 /\ waited[h] = 1 /\ child[h].st = "reaped")
    /\ [][/\ \A h \in Helpers :
               waited'[h] > waited[h] /\ path = "normal" /\ handle["composer"] =>
                   terminated[h] = 1
          /\ Blocked /\ interrupts' = interrupts => pc' = pc]_vars

\* osbuild-composer exited by itself, dnf-json was sent SIGTERM, died of it
\* and was collected; run() is about to return.
C17_Witness ==
    /\ pc = "return"
    /\ path = "normal"
    /\ waited["composer"] = 1
    /\ child["dnf_json"].sigterm = 1
    /\ child["dnf_json"].st = "reaped"
    /\ child["dnf_json"].status = SigTermCode

\* A step calls terminate() on child c, or a wait() on it returns.
CallsTerminateOrWait(c) == terminated'[c] > terminated[c] \/ waited'[c] > waited[c]

\* C18 (as stated): terminate() is never called, and no further wait()
\* returns, on a child whose wait() has already returned.
C18_NoCallAfterWait ==
    [][\A c \in Children : CallsTerminateOrWait(c) => waited[c] = 0]_vars

\* C18 (amended): terminate() and wait() are called again on a child whose
\* wait() has already returned only by the KeyboardInterrupt handler, after
\* an interrupt that arrived in a helper's wait of the try body, and at
\* most once each; a child whose status has been collected is never sent a
\* signal and its status is never collected again.
C18_RepeatedCallsAreInert ==
    /\ [](\A c \in Children : reaps[c] <= 1 /\ waited[c] <= 2 /\ terminated[c] <= 2)
    /\ [][\A c \in Children :
            /\ CallsTerminateOrWait(c) /\ waited[c] > 0 =>
                  /\ path = "interrupt"
                  /\ interruptedAt \in {"wait_worker", "wait_dnf_json"}
                  /\ pc \in {"ki_term_worker", "ki_wait_worker", "ki_term_dnf_json",
                             "ki_wait_dnf_json", "ki_term_composer", "ki_wait_composer"}
            /\ child[c].st = "reaped" => child'[c] = child[c] /\ reaps'[c] = reaps[c]]_vars

\* Interrupted while waiting for dnf-json after osbuild-composer was
\* collected: the handler has called terminate() and wait() on
\* osbuild-composer a second time, without a signal or a second collection.
C18_Witness ==
    /\ interruptedAt = "wait_dnf_json"
    /\ pc = "return"
    /\ terminated["composer"] = 1
    /\ waited["composer"] = 2
    /\ reaps["composer"] = 1
    /\ child["composer"].sigterm = 0

\* C19: while run() executes no socket is closed: close() is called only by
\* the step that exits the Cli context; and when that step follows a run on
\* the normal path or on the interrupt path (one interrupt, handled), every
\* spawned child had been collected while every socket was still open.
C19_SocketsOpenUntilExit ==
    /\ [](/\ pc # "done" => \A r \in SocketRoles : closes[r] = 0 /\ sock[r].st # "closed"
          /\ pc \in {"exit", "done"} /\ path \in {"normal", "interrupt"} /\ interrupts <= 1 =>
                \A c \in Children : WasSpawned(c) => child[c].st = "reaped")
    /\ [][closes' # closes => pc = "exit" /\ pc' = "done"]_vars

\* After a handled interrupt the context has been exited: osbuild-composer
\* and dnf-json were collected, then the sockets were closed.
C19_Witness ==
    /\ pc = "done"
    /\ path = "interrupt"
    /\ child["composer"].st = "reaped"
    /\ child["dnf_json"].st = "reaped"
    /\ closes["weldr_api"] = 1
    /\ closes["dnf_json"] = 1
    /\ sock["dnf_json"].st = "closed"

\* C20: when osbuild-composer eventually exits and every helper eventually
\* exits after terminate() (or by itself without osbuild-composer), every
\* run, interrupted or not, eventually ends: run() has returned a result or
\* an exception has left it, the Cli context is exited and every socket
\* that was created is closed.
C20_RunTerminates ==
    <>(/\ pc = "done"
       /\ outcome \in {"returned", "raised"}
       /\ \A r \in Created : sock[r].st = "closed" /\ closes[r] = 1)

\* A run that was interrupted once has ended with a result, dnf-json
\* having exited of the SIGTERM it was sent, and all its sockets closed.
C20_Witness ==
    /\ pc = "done"
    /\ outcome = "returned"
    /\ interrupts = 1
    /\ child["dnf_json"].status = SigTermCode
    /\ Created = SocketRoles
    /\ \A r \in SocketRoles : sock[r].st = "closed"

====
